---- MODULE Spec2Model ----
\* Model of the flag-wars game servers: the optimized server (the TypeScript
\* program carried in src/deploy.sh, lines 91-541) and the first server
\* (src/server.ts).  One session object, mutated by socket handlers and by
\* the wave, spawn and batch timers; every handler runs to completion.
EXTENDS Integers, Naturals, Sequences, FiniteSets, TLC

\* ---------------------------------------------------------------- bounds
\* Connection ids 1..NumConns (socket.id values).
NumConns == 2
\* Waves are explored up to round MaxRound.
MaxRound == 2
\* Registered players in the configurations a single wave is applied to.
WavePlayers == 4
\* The waves of one game in CadenceSpec.
CadenceRounds == 9
\* The participants of a game in MatchSpec, the waves of one game there, and
\* the eliminations one game records before archived participants stop
\* joining again.
MatchPlayers == 3
MatchRounds == 3
MaxArchived == 2
\* The collectibles on the field at the start of MoveSpec.
MoveShields == 2

Conns == 1..NumConns

\* ------------------------------------------------------- program constants
archivingInterval == 10000
UPDATE_RATE == 50
POSITION_THRESHOLD == 5
PickupRadiusSq == 900
MaxShieldsOptimized == 8
MaxShieldsBasic == 12
MaxPlayerShields == 3

\* ------------------------------------------------------------ value spaces
Null == "null"
Undefined == -1
NoWinner == 0
NoTimer == 0
Everyone == 0
\* Date.now() - startTime at an elimination or at the end of a game: some
\* positive number of milliseconds.
Elapsed == 1

\* Positions used for joins, moves and spawns.  All lie inside both servers'
\* play fields; (105,100) is 5 units from (100,100), (500,400) is far away.
Points == {<<100, 100>>, <<105, 100>>, <<500, 400>>}
SpawnPoints == {<<100, 100>>}
JoinPoints == {<<100, 100>>}

Servers == {"optimized", "basic"}

VARIABLES
  server,              \* which program runs: deploy.sh's server or server.ts
  players,             \* gameState.players: Map in insertion order
  gameStatus,          \* gameState.gameStatus
  startTime,           \* gameState.startTime: Null or "set"
  currentRound,        \* gameState.currentRound
  winner,              \* gameState.winner: id of the referenced Player or NoWinner
  eliminationOrder,    \* gameState.eliminationOrder: the archived Player objects
  shields,             \* gameState.shields: the collectibles on the field
  archivingTimer,      \* handle of the last wave timeout, or NoTimer
  shieldSpawnInterval, \* handle of the last spawn interval, or NoTimer
  timeouts,            \* wave timeouts scheduled, not fired, not cleared
  intervals,           \* spawn intervals set and not cleared
  updateBatch,         \* updateBatch: Map in insertion order (optimized server)
  sinceFlush,          \* Date.now() - lastBatchUpdate, saturated at UPDATE_RATE
  views,               \* gameState.players of each client that is followed
  emitted,             \* messages emitted by the last handler
  last                 \* the last handler that ran, the socket it ran for and
                       \* the status it found

vars == <<server, players, gameStatus, startTime, currentRound, winner,
          eliminationOrder, shields, archivingTimer, shieldSpawnInterval,
          timeouts, intervals, updateBatch, sinceFlush, views, emitted, last>>

\* --------------------------------------------------------------- Map helpers
\* A JavaScript Map keyed by id, kept as the sequence of its values in
\* insertion order (set on an existing key keeps the key's place).
Has(m, k) == \E i \in 1..Len(m) : m[i].id = k

IndexOf(m, k) == CHOOSE i \in 1..Len(m) : m[i].id = k

Get(m, k) == m[IndexOf(m, k)]

MapSetAppends(m, k, v) == Append(m, v)

MapSet(m, k, v) == IF Has(m, k) THEN [m EXCEPT ![IndexOf(m, k)] = v] ELSE Append(m, v)

MapDelete(m, k) == SelectSeq(m, LAMBDA e : e.id # k)

Ids(m) == {m[i].id : i \in 1..Len(m)}

Range(s) == {s[i] : i \in 1..Len(s)}

RemoveAt(s, i) == SubSeq(s, 1, i - 1) \o SubSeq(s, i + 1, Len(s))

Min(a, b) == IF a < b THEN a ELSE b

Max(a, b) == IF a > b THEN a ELSE b

\* ------------------------------------------------------------ session state
\* The session as one record, so that a handler is a function from the state
\* before it to the state after it.
Session ==
  [players |-> players, gameStatus |-> gameStatus, startTime |-> startTime,
   currentRound |-> currentRound, winner |-> winner,
   eliminationOrder |-> eliminationOrder, shields |-> shields,
   archivingTimer |-> archivingTimer, shieldSpawnInterval |-> shieldSpawnInterval,
   timeouts |-> timeouts, intervals |-> intervals, updateBatch |-> updateBatch,
   sinceFlush |-> sinceFlush, emitted |-> <<>>]

\* ------------------------------------------------------------ the clients
\* src/src/App.tsx: the players array of a client's gameState, with the
\* fields isAlive and shields of each entry.  views holds it for the sockets
\* whose client is followed; a socket that is not registered has an empty one
\* (its first message after join-game replaces the array).
ClientPlayer(p) == [id |-> p.id, isAlive |-> p.isAlive, shields |-> p.shields]

ClientPlayers(ps) == [i \in 1..Len(ps) |-> ClientPlayer(ps[i])]

\* Array.prototype.findIndex on the id; 0 stands for -1.
FindIndex(v, k) ==
  IF \E i \in 1..Len(v) : v[i].id = k
    THEN CHOOSE i \in 1..Len(v) : v[i].id = k /\ \A j \in 1..(i - 1) : v[j].id # k
    ELSE 0

\* { ...player, ...update }: the keys the update has replace the player's.
MergeUpdate(p, u) ==
  [p EXCEPT !.shields = IF u.hasShields THEN u.shields ELSE @,
            !.isAlive = IF u.hasIsAlive THEN u.isAlive ELSE @]

RECURSIVE OnBatchUpdate(_, _)
OnBatchUpdate(v, updates) ==
  IF updates = <<>> THEN v
  ELSE
    LET u == Head(updates)
        i == FindIndex(v, u.id)
    IN  OnBatchUpdate(IF i = 0 THEN v ELSE [v EXCEPT ![i] = MergeUpdate(@, u)],
                      Tail(updates))

\* archivedPlayers holds socket ids on the optimized server and names on
\* server.ts, where no entry's id equals one.
RECURSIVE OnArchivingWave(_, _)
OnArchivingWave(v, archivedPlayers) ==
  IF archivedPlayers = <<>> \/ server = "basic" THEN v
  ELSE
    LET i == FindIndex(v, Head(archivedPlayers))
    IN  OnArchivingWave(IF i = 0 THEN v ELSE [v EXCEPT ![i].isAlive = FALSE],
                        Tail(archivedPlayers))

OnPlayerAdded(v, player) == Append(v, ClientPlayer(player))

OnPlayerRemoved(v, playerId) == SelectSeq(v, LAMBDA p : p.id # playerId)

\* One message handled by a client.
Receive(v, m) ==
  CASE m.ev = "batch-update" -> OnBatchUpdate(v, m.data)
    [] m.ev \in {"initial-state", "game-state-update", "game-started", "game-reset"}
         -> ClientPlayers(m.data.players)
    [] m.ev = "archiving-wave" -> OnArchivingWave(v, m.data.archivedPlayers)
    [] m.ev = "player-added" -> OnPlayerAdded(v, m.data)
    [] m.ev = "player-removed" -> OnPlayerRemoved(v, m.data)
    [] OTHER -> v

\* to: a socket id, Everyone (io.emit) or Others(c) (socket.broadcast.emit).
Others(c) == 0 - c

Receives(c, m) == m.to = c \/ m.to = Everyone \/ (m.to < 0 /\ m.to # Others(c))

RECURSIVE ReceiveAll(_, _, _)
ReceiveAll(v, c, msgs) ==
  IF msgs = <<>> THEN v
  ELSE ReceiveAll(IF Receives(c, Head(msgs)) THEN Receive(v, Head(msgs)) ELSE v,
                  c, Tail(msgs))

\* The messages of one handler, delivered in the order they were emitted.
Deliver(vs, s) ==
  [c \in DOMAIN vs |->
     IF \E i \in 1..Len(s.players) : s.players[i].id = c
       THEN ReceiveAll(vs[c], c, s.emitted)
       ELSE <<>>]

\* last: the handler that ran last, the socket it ran for (0 for a timer) and
\* the status it found; for a start-game also the same of the handler before.
NoPrev == [op |-> "-", id |-> 0, from |-> "-"]

\* at: the point a player-move names, NoPoint for every other handler.
NoPoint == <<>>

CommitAt(s, op, c, pt) ==
  /\ players' = s.players
  /\ gameStatus' = s.gameStatus
  /\ startTime' = s.startTime
  /\ currentRound' = s.currentRound
  /\ winner' = s.winner
  /\ eliminationOrder' = s.eliminationOrder
  /\ shields' = s.shields
  /\ archivingTimer' = s.archivingTimer
  /\ shieldSpawnInterval' = s.shieldSpawnInterval
  /\ timeouts' = s.timeouts
  /\ intervals' = s.intervals
  /\ updateBatch' = s.updateBatch
  /\ sinceFlush' = s.sinceFlush
  /\ views' = Deliver(views, s)
  /\ emitted' = s.emitted
  /\ last' = [op |-> op, id |-> c, from |-> gameStatus, at |-> pt,
               prev |-> IF op = "start-game"
                          THEN [op |-> last.op, id |-> last.id, from |-> last.from]
                          ELSE NoPrev]
  /\ server' = server

Commit(s, op, c) == CommitAt(s, op, c, NoPoint)

Emit(s, m) == [s EXCEPT !.emitted = Append(@, m)]

Msg(ev, to, data) == [ev |-> ev, to |-> to, data |-> data]

\* server.ts getPublicGameState and the optimized server's initial-state and
\* game-started payloads carry the Player objects.
getPublicGameState(s) == [gameStatus |-> s.gameStatus, players |-> s.players]

\* deploy.sh getOptimizedGameState maps each player to its public fields.
getOptimizedGameState(s) ==
  [gameStatus |-> s.gameStatus,
   players |-> [i \in 1..Len(s.players) |->
                  [id |-> s.players[i].id, x |-> s.players[i].x,
                   y |-> s.players[i].y, isAlive |-> s.players[i].isAlive,
                   shields |-> s.players[i].shields,
                   isHost |-> s.players[i].isHost]]]

AlivePlayers(ps) == SelectSeq(ps, LAMBDA p : p.isAlive)

\* ------------------------------------------------------------------ timers
\* Timer handles are opaque; a new timer takes the least number no
\* outstanding timer of its kind has.
FreshTimer(used) == CHOOSE n \in 1..(Cardinality(used) + 1) : n \notin used

SetTimeout(s, delay) ==
  LET t == FreshTimer({o.id : o \in s.timeouts})
  IN  [s EXCEPT !.timeouts = @ \cup {[id |-> t, delay |-> delay]},
                !.archivingTimer = t]

ClearTimeoutForgets(s) == [s EXCEPT !.archivingTimer = NoTimer]

ClearTimeout(s) ==
  IF s.archivingTimer # NoTimer
    THEN [s EXCEPT !.timeouts = {t \in @ : t.id # s.archivingTimer},
                   !.archivingTimer = NoTimer]
    ELSE s

SetInterval(s) ==
  LET t == FreshTimer(s.intervals)
  IN  [s EXCEPT !.intervals = @ \cup {t}, !.shieldSpawnInterval = t]

ClearInterval(s) ==
  IF s.shieldSpawnInterval # NoTimer
    THEN [s EXCEPT !.intervals = @ \ {s.shieldSpawnInterval},
                   !.shieldSpawnInterval = NoTimer]
    ELSE s

\* ------------------------------------------------------------------- reset
ResetPlayerKeepsShields(p) ==
  [p EXCEPT !.isAlive = TRUE, !.survivalTime = 0, !.eliminatedAt = Undefined]

ResetPlayer(p) ==
  [p EXCEPT !.isAlive = TRUE, !.shields = 0, !.survivalTime = 0,
            !.eliminatedAt = Undefined]

ResetFieldsKeepsRound(s) ==
  [s EXCEPT !.gameStatus = "waiting", !.startTime = Null,
            !.winner = NoWinner, !.eliminationOrder = <<>>, !.shields = <<>>,
            !.players = [i \in 1..Len(s.players) |-> ResetPlayer(s.players[i])]]

ResetFieldsKeepsField(s) ==
  [s EXCEPT !.gameStatus = "waiting", !.startTime = Null, !.currentRound = 0,
            !.winner = NoWinner, !.eliminationOrder = <<>>,
            !.players = [i \in 1..Len(s.players) |-> ResetPlayer(s.players[i])]]

ResetFields(s) ==
  [s EXCEPT !.gameStatus = "waiting", !.startTime = Null, !.currentRound = 0,
            !.winner = NoWinner, !.eliminationOrder = <<>>, !.shields = <<>>,
            !.players = [i \in 1..Len(s.players) |-> ResetPlayer(s.players[i])]]

resetGameKeepsTimers(s) ==
  LET reset == ResetFields(s)
  IN  IF server = "optimized" THEN [reset EXCEPT !.updateBatch = <<>>] ELSE reset

resetGame(s) ==
  LET cleared == ClearInterval(ClearTimeout(s))
      reset == ResetFields(cleared)
  IN  IF server = "optimized" THEN [reset EXCEPT !.updateBatch = <<>>] ELSE reset

\* --------------------------------------------------------------- join-game
NewPlayer(c, isHost, pt) ==
  [id |-> c, isHost |-> isHost, isAlive |-> TRUE, shields |-> 0,
   survivalTime |-> 0, eliminatedAt |-> Undefined, x |-> pt[1], y |-> pt[2]]

\* A socket id is never reused: a closed connection whose id the session
\* still mentions sends nothing; an id nothing mentions stands for a new socket.
Mentioned(c) ==
  \/ c \in Ids(eliminationOrder)
  \/ c \in Ids(updateBatch)
  \/ c = winner

Open(c) == Has(players, c) \/ ~Mentioned(c)

JoinGameHandler(s, c, pt) ==
  LET isHost == Len(s.players) = 0
      player == NewPlayer(c, isHost, pt)
      s1 == [s EXCEPT !.players = MapSet(@, c, player)]
      s2 == Emit(s1, Msg("player-joined", c, [id |-> c, isHost |-> isHost]))
  IN  IF server = "optimized"
        THEN Emit(Emit(s2, Msg("initial-state", c, getPublicGameState(s1))),
                  Msg("player-added", Others(c), player))
        ELSE Emit(s2, Msg("game-state-update", Everyone, getPublicGameState(s1)))

JoinGame(c, pt) ==
  /\ Open(c)
  /\ Commit(JoinGameHandler(Session, c, pt), "join-game", c)

\* -------------------------------------------------------------- disconnect
DisconnectHandlerNoTransfer(s, c) ==
  IF ~Has(s.players, c) THEN s
  ELSE
    LET s1 == [s EXCEPT !.players = MapDelete(@, c)]
        s3 == IF server = "optimized"
                THEN Emit(s1, Msg("player-removed", Everyone, c))
                ELSE Emit(Emit(s1, Msg("player-left", Everyone, c)),
                          Msg("game-state-update", Everyone, getPublicGameState(s1)))
    IN  IF Len(s3.players) = 0 THEN resetGame(s3) ELSE s3

DisconnectHandlerNoReset(s, c) ==
  IF ~Has(s.players, c) THEN s
  ELSE
    LET player == Get(s.players, c)
        s1 == [s EXCEPT !.players = MapDelete(@, c)]
        s2 == IF player.isHost /\ Len(s1.players) > 0
                THEN Emit([s1 EXCEPT !.players[1].isHost = TRUE],
                          Msg("new-host", Everyone, s1.players[1].id))
                ELSE s1
    IN  IF server = "optimized"
          THEN Emit(s2, Msg("player-removed", Everyone, c))
          ELSE Emit(Emit(s2, Msg("player-left", Everyone, c)),
                    Msg("game-state-update", Everyone, getPublicGameState(s2)))

DisconnectHandler(s, c) ==
  IF ~Has(s.players, c) THEN s
  ELSE
    LET player == Get(s.players, c)
        s1 == [s EXCEPT !.players = MapDelete(@, c)]
        s2 == IF player.isHost /\ Len(s1.players) > 0
                THEN Emit([s1 EXCEPT !.players[1].isHost = TRUE],
                          Msg("new-host", Everyone, s1.players[1].id))
                ELSE s1
        s3 == IF server = "optimized"
                THEN Emit(s2, Msg("player-removed", Everyone, c))
                ELSE Emit(Emit(s2, Msg("player-left", Everyone, c)),
                          Msg("game-state-update", Everyone, getPublicGameState(s2)))
    IN  IF Len(s3.players) = 0 THEN resetGame(s3) ELSE s3

Disconnect(c) ==
  /\ Has(players, c)
  /\ Commit(DisconnectHandler(Session, c), "disconnect", c)

\* ------------------------------------------------------------- spawnShield
NewShield(pt) == [x |-> pt[1], y |-> pt[2]]

spawnShieldAtCap(s, pt) ==
  IF s.gameStatus = "playing" /\ Len(s.shields) <= MaxShieldsOptimized
    THEN Emit([s EXCEPT !.shields = Append(@, NewShield(pt))],
              Msg("shield-spawned", Everyone, NewShield(pt)))
    ELSE s

spawnShieldOptimized(s, pt) ==
  IF s.gameStatus = "playing" /\ Len(s.shields) < MaxShieldsOptimized
    THEN Emit([s EXCEPT !.shields = Append(@, NewShield(pt))],
              Msg("shield-spawned", Everyone, NewShield(pt)))
    ELSE s

maxShields(alivePlayers) == Min(3 + (alivePlayers \div 2), MaxShieldsBasic)

spawnShieldBasic(s, pt) ==
  IF s.gameStatus # "playing" THEN s
  ELSE IF Len(s.shields) < maxShields(Len(AlivePlayers(s.players)))
    THEN Emit([s EXCEPT !.shields = Append(@, NewShield(pt))],
              Msg("shield-spawned", Everyone, NewShield(pt)))
    ELSE s

adjustShieldSpawnRate(s) == SetInterval(ClearInterval(s))

\* spawnShield called n times in a row, the i-th at position pts[i].
RECURSIVE SpawnInitial(_, _, _)
SpawnInitial(s, pts, n) ==
  IF n = 0 THEN s
  ELSE spawnShieldBasic(SpawnInitial(s, pts, n - 1), pts[n])

\* ------------------------------------------------------- startArchivingWaves
startArchivingWavesOptimized(s, pts) ==
  LET s1 == SetInterval(s)
      s2 == spawnShieldOptimized(spawnShieldOptimized(s1, pts[1]), pts[2])
  IN  SetTimeout(s2, archivingInterval)

startArchivingWavesBasic(s, pts) ==
  LET initialPlayers == Len(AlivePlayers(s.players))
      s1 == SpawnInitial(s, pts, Min(initialPlayers, 3))
      s2 == adjustShieldSpawnRate(s1)
  IN  SetTimeout(s2, archivingInterval)

\* -------------------------------------------------------------- start-game
StartPlayerKeepsShields(p) ==
  [p EXCEPT !.isAlive = TRUE, !.survivalTime = 0, !.eliminatedAt = Undefined]

StartPlayer(p) ==
  [p EXCEPT !.isAlive = TRUE, !.shields = 1, !.survivalTime = 0,
            !.eliminatedAt = Undefined]

StartGuardAnySender(s, c) == Has(s.players, c) /\ s.gameStatus # "playing"

StartGuardWhilePlaying(s, c) == Has(s.players, c) /\ Get(s.players, c).isHost

StartGuard(s, c) ==
  /\ Has(s.players, c)
  /\ Get(s.players, c).isHost
  /\ s.gameStatus # "playing"

StartGameHandler(s, c, pts) ==
  IF ~StartGuard(s, c) THEN s
  ELSE
    LET s1 == [s EXCEPT !.gameStatus = "playing", !.startTime = "set",
                        !.currentRound = 0, !.winner = NoWinner,
                        !.eliminationOrder = <<>>,
                        !.players = [i \in 1..Len(s.players) |-> StartPlayer(s.players[i])]]
        s2 == Emit(s1, Msg("game-started", Everyone, getPublicGameState(s1)))
    IN  IF server = "optimized"
          THEN startArchivingWavesOptimized(s2, pts)
          ELSE startArchivingWavesBasic(s2, pts)

StartGame(c, pts) ==
  /\ Open(c)
  /\ Commit(StartGameHandler(Session, c, pts), "start-game", c)

\* -------------------------------------------------------------- reset-game
ResetGuard(s, c) == Has(s.players, c) /\ Get(s.players, c).isHost

ResetGameHandler(s, c) ==
  IF ~ResetGuard(s, c) THEN s
  ELSE
    LET reset == resetGame(s)
    IN  Emit(reset, Msg("game-reset", Everyone,
                        IF server = "optimized" THEN getOptimizedGameState(reset)
                        ELSE getPublicGameState(reset)))

ResetGame(c) ==
  /\ Open(c)
  /\ Commit(ResetGameHandler(Session, c), "reset-game", c)

\* --------------------------------------------------------- request-restart
\* server.ts only; the optimized server registers no handler for the event.
RequestRestartHandler(s) ==
  IF server # "basic" \/ s.gameStatus # "finished" THEN s
  ELSE
    LET reset == ResetFields(s)
    IN  Emit(reset, Msg("game-reset", Everyone, getPublicGameState(reset)))

RequestRestart(c) ==
  /\ Open(c)
  /\ Commit(RequestRestartHandler(Session), "request-restart", c)

\* ------------------------------------------------------------- player-move
MoveGuardIgnoresAlive(s, c) == Has(s.players, c) /\ s.gameStatus = "playing"

MoveGuardIgnoresStatus(s, c) == Has(s.players, c) /\ Get(s.players, c).isAlive

MoveGuard(s, c) ==
  /\ Has(s.players, c)
  /\ Get(s.players, c).isAlive
  /\ s.gameStatus = "playing"

DistSq(x1, y1, x2, y2) == (x1 - x2) * (x1 - x2) + (y1 - y2) * (y1 - y2)

InRange(shield, x, y) == DistSq(shield.x, shield.y, x, y) < PickupRadiusSq

AddShieldUncapped(n) == n + 1

\* Math.min(player.shields + 1, 3)
AddShield(n) == Min(n + 1, MaxPlayerShields)

\* A PlayerUpdate; shields and isAlive are optional fields.
PlayerUpdate(c, x, y, hasShields, sh, hasIsAlive, alive) ==
  [id |-> c, x |-> x, y |-> y, hasShields |-> hasShields, shields |-> sh,
   hasIsAlive |-> hasIsAlive, isAlive |-> alive]

\* deploy.sh: the scan runs from the last collectible to the first and stops
\* at the first hit.
CollectOptimizedFirstPlayer(s, c, x, y) ==
  LET hits == {i \in 1..Len(s.shields) : InRange(s.shields[i], x, y)}
  IN  IF hits = {} THEN s
      ELSE
        LET i == CHOOSE h \in hits : \A g \in hits : g <= h
            n == AddShield(s.players[1].shields)
            s1 == [s EXCEPT !.players[1].shields = n, !.shields = RemoveAt(@, i)]
        IN  Emit(Emit(s1, Msg("shield-collected", c, n)),
                 Msg("shield-removed", Everyone, s.shields[i]))

CollectOptimized(s, c, x, y) ==
  LET hits == {i \in 1..Len(s.shields) : InRange(s.shields[i], x, y)}
  IN  IF hits = {} THEN s
      ELSE
        LET i == CHOOSE h \in hits : \A g \in hits : g <= h
            k == IndexOf(s.players, c)
            n == AddShield(s.players[k].shields)
            s1 == [s EXCEPT !.players[k].shields = n, !.shields = RemoveAt(@, i)]
        IN  Emit(Emit(s1, Msg("shield-collected", c, n)),
                 Msg("shield-removed", Everyone, s.shields[i]))

PlayerMoveOptimized(s, c, pt, elapsed) ==
  IF ~MoveGuard(s, c) THEN s
  ELSE
    LET k == IndexOf(s.players, c)
        player == s.players[k]
        x == pt[1]
        y == pt[2]
    IN  IF DistSq(player.x, player.y, x, y) > POSITION_THRESHOLD * POSITION_THRESHOLD
           \/ elapsed
          THEN
            LET s1 == [s EXCEPT !.players[k].x = x, !.players[k].y = y]
                s2 == CollectOptimized(s1, c, x, y)
                p2 == s2.players[k]
            IN  [s2 EXCEPT !.updateBatch =
                   MapSet(@, c, PlayerUpdate(c, p2.x, p2.y, TRUE, p2.shields,
                                             TRUE, p2.isAlive))]
          ELSE s

\* server.ts: findIndex takes the first collectible in range.
CollectBasic(s, c, x, y) ==
  LET hits == {i \in 1..Len(s.shields) : InRange(s.shields[i], x, y)}
  IN  IF hits = {} THEN s
      ELSE
        LET i == CHOOSE h \in hits : \A g \in hits : h <= g
            k == IndexOf(s.players, c)
            n == AddShield(s.players[k].shields)
            s1 == [s EXCEPT !.players[k].shields = n, !.shields = RemoveAt(@, i)]
        IN  Emit(s1, Msg("shield-collected", c, n))

PlayerMoveBasic(s, c, pt) ==
  IF ~MoveGuard(s, c) THEN s
  ELSE
    LET k == IndexOf(s.players, c)
        s1 == [s EXCEPT !.players[k].x = pt[1], !.players[k].y = pt[2]]
        s2 == CollectBasic(s1, c, pt[1], pt[2])
    IN  Emit(s2, Msg("game-state-update", Everyone, getPublicGameState(s2)))

\* elapsed: whether more than 100 ms passed since the player's lastUpdate.
PlayerMove(c, pt, elapsed) ==
  /\ Open(c)
  /\ server = "basic" => elapsed
  /\ CommitAt(IF server = "optimized"
                THEN PlayerMoveOptimized(Session, c, pt, elapsed)
                ELSE PlayerMoveBasic(Session, c, pt),
              "player-move", c, pt)

\* -------------------------------------------------------- generateScoreboard
Reverse(s) == [i \in 1..Len(s) |-> s[Len(s) + 1 - i]]

Archived(p) ==
  [id |-> p.id, survivalTime |-> p.survivalTime, eliminatedAt |-> p.eliminatedAt]

generateScoreboard(s) ==
  LET alive == AlivePlayers(s.players)
      allPlayers == Reverse(s.eliminationOrder
                            \o [i \in 1..Len(alive) |-> Archived(alive[i])])
  IN  [i \in 1..Len(allPlayers) |->
         [rank |-> i,
          id |-> allPlayers[i].id,
          survivalTime |-> allPlayers[i].survivalTime,
          roundsSurvived |-> IF allPlayers[i].eliminatedAt \in {Undefined, 0}
                               THEN s.currentRound
                               ELSE allPlayers[i].eliminatedAt,
          isWinner |-> allPlayers[i].id = s.winner]]

\* ----------------------------------------------------------------- endGame
endGameNoWinner(s) ==
  LET s1 == ClearInterval(ClearTimeout(s))
      s2 == [s1 EXCEPT !.gameStatus = "finished"]
  IN  Emit(s2, Msg("game-ended", Everyone, generateScoreboard(s2)))

endGame(s) ==
  LET s1 == ClearInterval(ClearTimeout(s))
      s2 == [s1 EXCEPT !.gameStatus = "finished"]
      alivePlayers == AlivePlayers(s2.players)
      s3 == IF Len(alivePlayers) = 1
              THEN [s2 EXCEPT !.winner = alivePlayers[1].id,
                              !.players[IndexOf(s2.players, alivePlayers[1].id)]
                                 .survivalTime = Elapsed]
              ELSE s2
  IN  Emit(s3, Msg("game-ended", Everyone, generateScoreboard(s3)))

\* --------------------------------------------------------- runArchivingWave
archivingSpeedLowFloor(round) == Max(10000 - (round * 1000), 2000)

archivingSpeed(round) == Max(10000 - (round * 1000), 3000)

playersToArchiveAll(n) == n

playersToArchiveFloor(n) == (3 * n) \div 10

\* Math.ceil(n * 0.3)
playersToArchive(n) == (3 * n + 9) \div 10

\* All sequences of n distinct elements of S.
Arrangements(S, n) ==
  {q \in [1..n -> S] : \A i, j \in 1..n : i # j => q[i] # q[j]}

TargetChoicesNoForce(ps) ==
  LET alive == AlivePlayers(ps)
      zero == {alive[i].id : i \in {j \in 1..Len(alive) : alive[j].shields = 0}}
  IN  IF Len(alive) <= 1 THEN {<<>>}
      ELSE Arrangements(zero, Min(playersToArchive(Len(alive)), Cardinality(zero)))

TargetChoicesForceAll(ps) ==
  LET alive == AlivePlayers(ps)
      zero == {alive[i].id : i \in {j \in 1..Len(alive) : alive[j].shields = 0}}
  IN  IF Len(alive) <= 1 THEN {<<>>}
      ELSE IF zero # {}
        THEN Arrangements(zero, Min(playersToArchive(Len(alive)), Cardinality(zero)))
        ELSE {[i \in 1..Len(alive) |-> alive[i].id]}

\* The values targetPlayers can take: the zero-shield alive players in the
\* order the random comparator leaves them, cut to playersToArchive; or, when
\* there is none, one alive player drawn at random.
TargetChoices(ps) ==
  LET alive == AlivePlayers(ps)
      zero == {alive[i].id : i \in {j \in 1..Len(alive) : alive[j].shields = 0}}
  IN  IF Len(alive) <= 1 THEN {<<>>}
      ELSE IF zero # {}
        THEN Arrangements(zero, Min(playersToArchive(Len(alive)), Cardinality(zero)))
        ELSE {<<alive[i].id>> : i \in 1..Len(alive)}

ArchiveTargetIgnoresShields(s, c) ==
  LET k == IndexOf(s.players, c)
      player == s.players[k]
      s1 == [s EXCEPT !.players[k].isAlive = FALSE,
                      !.players[k].survivalTime = Elapsed,
                      !.players[k].eliminatedAt = s.currentRound,
                      !.eliminationOrder =
                         Append(@, [id |-> c, survivalTime |-> Elapsed,
                                    eliminatedAt |-> s.currentRound])]
  IN  IF server = "optimized"
        THEN [s1 EXCEPT !.updateBatch =
                MapSet(@, c, PlayerUpdate(c, player.x, player.y, FALSE, 0,
                                          TRUE, FALSE))]
        ELSE Emit(s1, Msg("player-archived", c, s.currentRound))

ArchiveTarget(s, c) ==
  LET k == IndexOf(s.players, c)
      player == s.players[k]
  IN  IF player.shields > 0
        THEN
          LET s1 == [s EXCEPT !.players[k].shields = @ - 1]
          IN  IF server = "optimized"
                THEN [s1 EXCEPT !.updateBatch =
                        MapSet(@, c, PlayerUpdate(c, player.x, player.y, TRUE,
                                                  player.shields - 1, FALSE, FALSE))]
                ELSE Emit(s1, Msg("shield-used", c, player.shields - 1))
        ELSE
          LET s1 == [s EXCEPT !.players[k].isAlive = FALSE,
                              !.players[k].survivalTime = Elapsed,
                              !.players[k].eliminatedAt = s.currentRound,
                              !.eliminationOrder =
                                 Append(@, [id |-> c, survivalTime |-> Elapsed,
                                            eliminatedAt |-> s.currentRound])]
          IN  IF server = "optimized"
                THEN [s1 EXCEPT !.updateBatch =
                        MapSet(@, c, PlayerUpdate(c, player.x, player.y, FALSE, 0,
                                                  TRUE, FALSE))]
                ELSE Emit(s1, Msg("player-archived", c, s.currentRound))

RECURSIVE ArchiveTargets(_, _, _)
ArchiveTargets(s, targetPlayers, n) ==
  IF n = 0 THEN s
  ELSE ArchiveTarget(ArchiveTargets(s, targetPlayers, n - 1), targetPlayers[n])

runArchivingWaveNoReturn(s, targetPlayers) ==
  IF s.gameStatus # "playing" THEN s
  ELSE
    LET s1 == [s EXCEPT !.currentRound = @ + 1]
        s2 == IF Len(AlivePlayers(s1.players)) <= 1 THEN endGame(s1) ELSE s1
        speed == archivingSpeed(s2.currentRound)
        s3 == ArchiveTargets(s2, targetPlayers, Len(targetPlayers))
        archivedIds == SelectSeq(targetPlayers,
                                 LAMBDA c : ~Get(s3.players, c).isAlive)
        s4 == Emit(s3, Msg("archiving-wave", Everyone,
                           [round |-> s3.currentRound,
                            archivedPlayers |-> archivedIds,
                            nextWaveIn |-> speed]))
    IN  IF Len(AlivePlayers(s4.players)) <= 1
          THEN endGame(s4)
          ELSE SetTimeout(s4, speed)

runArchivingWaveKeepsOn(s, targetPlayers) ==
  IF s.gameStatus # "playing" THEN s
  ELSE
    LET s1 == [s EXCEPT !.currentRound = @ + 1]
        speed == archivingSpeed(s1.currentRound)
        s2 == ArchiveTargets(s1, targetPlayers, Len(targetPlayers))
        archivedIds == SelectSeq(targetPlayers,
                                 LAMBDA c : ~Get(s2.players, c).isAlive)
        s3 == Emit(s2, Msg("archiving-wave", Everyone,
                           [round |-> s2.currentRound,
                            archivedPlayers |-> archivedIds,
                            nextWaveIn |-> speed]))
    IN  IF Len(AlivePlayers(s3.players)) < 1
          THEN endGame(s3)
          ELSE SetTimeout(s3, speed)

runArchivingWave(s, targetPlayers) ==
  IF s.gameStatus # "playing" THEN s
  ELSE
    LET s1 == [s EXCEPT !.currentRound = @ + 1]
        alivePlayers == AlivePlayers(s1.players)
    IN  IF Len(alivePlayers) <= 1 THEN endGame(s1)
        ELSE
          LET speed == archivingSpeed(s1.currentRound)
              s2 == ArchiveTargets(s1, targetPlayers, Len(targetPlayers))
              archivedIds == SelectSeq(targetPlayers,
                                       LAMBDA c : ~Get(s2.players, c).isAlive)
              s3 == Emit(s2, Msg("archiving-wave", Everyone,
                                 [round |-> s2.currentRound,
                                  archivedPlayers |-> archivedIds,
                                  nextWaveIn |-> speed]))
              s4 == IF server = "optimized" THEN s3
                    ELSE Emit(s3, Msg("game-state-update", Everyone, getPublicGameState(s3)))
          IN  IF Len(AlivePlayers(s4.players)) <= 1
                THEN endGame(s4)
                ELSE SetTimeout(s4, speed)

\* A scheduled wave timeout fires, in a game of fewer than rounds rounds.
WaveTimerBelow(rounds) ==
  \E t \in timeouts, targetPlayers \in TargetChoices(players) :
    /\ currentRound < rounds
    /\ Commit(runArchivingWave([Session EXCEPT !.timeouts = @ \ {t}], targetPlayers),
           "wave", 0)

WaveTimer == WaveTimerBelow(MaxRound)

\* An active spawn interval fires.
SpawnTimer(pt) ==
  /\ intervals # {}
  /\ Commit(IF server = "optimized"
              THEN spawnShieldOptimized(Session, pt)
              ELSE adjustShieldSpawnRate(spawnShieldBasic(Session, pt)),
            "spawn", 0)

\* ------------------------------------------------------------ batchUpdater
batchUpdaterNotDue(s, due) ==
  IF Len(s.updateBatch) > 0
    THEN [Emit(s, Msg("batch-update", Everyone, s.updateBatch))
            EXCEPT !.updateBatch = <<>>, !.sinceFlush = 0]
    ELSE s

\* due: whether UPDATE_RATE ms have passed since lastBatchUpdate.  A flush
\* sets lastBatchUpdate to Date.now().
batchUpdater(s, due) ==
  IF Len(s.updateBatch) > 0 /\ due
    THEN [Emit(s, Msg("batch-update", Everyone, s.updateBatch))
            EXCEPT !.updateBatch = <<>>, !.sinceFlush = 0]
    ELSE s

BatchTimer(due) ==
  /\ server = "optimized"
  /\ Commit(batchUpdater(Session, due), "batch", 0)

Init ==
  /\ server \in Servers
  /\ players = <<>>
  /\ gameStatus = "waiting"
  /\ startTime = Null
  /\ currentRound = 0
  /\ winner = NoWinner
  /\ eliminationOrder = <<>>
  /\ shields = <<>>
  /\ archivingTimer = NoTimer
  /\ shieldSpawnInterval = NoTimer
  /\ timeouts = {}
  /\ intervals = {}
  /\ updateBatch = <<>>
  /\ sinceFlush = 0
  /\ views = <<>>
  /\ emitted = <<>>
  /\ last = [op |-> "init", id |-> 0, from |-> "waiting", at |-> NoPoint,
            prev |-> NoPrev]

\* Client messages and timers, with moves to the points of P.
Handlers(P) ==
  \/ \E c \in Conns, pt \in JoinPoints : JoinGame(c, pt)
  \/ \E c \in Conns, pts \in [1..3 -> SpawnPoints] : StartGame(c, pts)
  \/ \E c \in Conns, pt \in P, elapsed \in BOOLEAN : PlayerMove(c, pt, elapsed)
  \/ \E c \in Conns : ResetGame(c)
  \/ \E c \in Conns : RequestRestart(c)
  \/ \E c \in Conns : Disconnect(c)
  \/ WaveTimer
  \/ \E pt \in SpawnPoints : SpawnTimer(pt)

\* The batch timer runs every 25 ms, the wave and spawn timers every 3 to 10 s.
\* No handler but batchUpdater reads updateBatch, so when the pending updates
\* are flushed does not change what the other handlers do: Next runs the
\* flush as soon as an update is pending.
Next ==
  \/ updateBatch = <<>> /\ Handlers(SpawnPoints)
  \/ \E due \in BOOLEAN : BatchTimer(due)

Spec == Init /\ [][Next]_vars

\* ------------------------------------------------- one wave, any configuration
\* A running game after its first wave: n registered players, at most one of
\* them archived in round 1, the others with any shield counts, the next wave
\* scheduled.  Ten players without shields stand for the large-lobby case.
WaveConfig(n, sh, dead) ==
  [i \in 1..n |->
     [id |-> i, isHost |-> i = 1, isAlive |-> i \notin dead,
      shields |-> IF i \in dead THEN 0 ELSE sh[i],
      survivalTime |-> IF i \in dead THEN Elapsed ELSE 0,
      eliminatedAt |-> IF i \in dead THEN 1 ELSE Undefined,
      x |-> 100, y |-> 100]]

WaveInit ==
  /\ server \in Servers
  /\ \/ \E n \in 2..WavePlayers :
          \E sh \in [1..n -> 0..MaxPlayerShields] :
            \E dead \in {{}} \cup {{d} : d \in 1..n} :
              /\ players = WaveConfig(n, sh, dead)
              /\ eliminationOrder =
                   IF dead = {} THEN <<>>
                   ELSE <<[id |-> CHOOSE d \in dead : TRUE,
                           survivalTime |-> Elapsed, eliminatedAt |-> 1]>>
     \/ /\ players = WaveConfig(10, [i \in 1..10 |-> 0], {})
        /\ eliminationOrder = <<>>
  /\ gameStatus = "playing"
  /\ startTime = "set"
  /\ currentRound = 1
  /\ winner = NoWinner
  /\ shields = <<>>
  /\ archivingTimer = 1
  /\ shieldSpawnInterval = 1
  /\ timeouts = {[id |-> 1, delay |-> archivingSpeed(1)]}
  /\ intervals = {1}
  /\ updateBatch = <<>>
  /\ sinceFlush = 0
  /\ views = <<>>
  /\ emitted = <<>>
  /\ last = [op |-> "init", id |-> 0, from |-> "playing", at |-> NoPoint,
            prev |-> NoPrev]

WaveSpec == WaveInit /\ [][WaveTimer]_vars

\* ------------------------------------------------------- games that go on
\* One lobby that fills, starts games and plays them: no reset, no disconnect,
\* no join after the first start.  The round counter is folded at MaxRound
\* (the handler reads it only for the announced delay and eliminatedAt), so
\* that a game that never ends is a cycle.
CapRound(s) == [s EXCEPT !.currentRound = Min(@, MaxRound)]

WaveTimerCapped ==
  \E t \in timeouts, targetPlayers \in TargetChoices(players) :
    Commit(CapRound(runArchivingWave([Session EXCEPT !.timeouts = @ \ {t}],
                                     targetPlayers)),
           "wave", 0)

LobbyJoin(c, pt) ==
  /\ gameStatus = "waiting"
  /\ ~Has(players, c)
  /\ JoinGame(c, pt)

LiveNext ==
  \/ /\ updateBatch = <<>>
     /\ \/ \E c \in Conns, pt \in JoinPoints : LobbyJoin(c, pt)
        \/ \E c \in Conns, pts \in [1..3 -> SpawnPoints] : StartGame(c, pts)
        \/ \E c \in Conns, pt \in SpawnPoints, elapsed \in BOOLEAN :
             PlayerMove(c, pt, elapsed)
        \/ \E pt \in SpawnPoints : SpawnTimer(pt)
  \/ WaveTimerCapped
  \/ BatchTimer(TRUE)

\* The timers fire when they are due.  For the wave timer this is
\* WF_vars(WaveTimerCapped) written out: WaveTimerCapped is enabled exactly
\* when a wave timeout is outstanding, and a step of LiveNext is a
\* WaveTimerCapped step exactly when it leaves last.op = "wave".
WaveTimerFairness ==
  \/ []<>(timeouts = {})
  \/ []<><<last'.op = "wave">>_vars

LiveSpec ==
  /\ Init
  /\ [][LiveNext]_vars
  /\ WF_vars(BatchTimer(TRUE))
  /\ WaveTimerFairness

\* ------------------------------------------------- games with three players
\* A running game after its first wave with up to MatchPlayers participants,
\* at most one of them archived, the others with 0 or 1 shield; from there
\* waves, moves, disconnects, archived participants that send join-game
\* again, and the host's start-game and reset-game.
MatchInit ==
  /\ server \in Servers
  /\ \E n \in 2..MatchPlayers :
       \E sh \in [1..n -> 0..1] :
         \E dead \in {{}} \cup {{d} : d \in 1..n} :
           /\ players = WaveConfig(n, sh, dead)
           /\ eliminationOrder =
                IF dead = {} THEN <<>>
                ELSE <<[id |-> CHOOSE d \in dead : TRUE,
                        survivalTime |-> Elapsed, eliminatedAt |-> 1]>>
  /\ gameStatus = "playing"
  /\ startTime = "set"
  /\ currentRound = 1
  /\ winner = NoWinner
  /\ shields = <<>>
  /\ archivingTimer = 1
  /\ shieldSpawnInterval = 1
  /\ timeouts = {[id |-> 1, delay |-> archivingSpeed(1)]}
  /\ intervals = {1}
  /\ updateBatch = <<>>
  /\ sinceFlush = 0
  /\ views = <<>>
  /\ emitted = <<>>
  /\ last = [op |-> "init", id |-> 0, from |-> "playing", at |-> NoPoint,
            prev |-> NoPrev]

\* An archived participant sends join-game again.
Rejoin(c, pt) ==
  /\ Has(players, c)
  /\ ~Get(players, c).isAlive
  /\ Len(eliminationOrder) < MaxArchived
  /\ JoinGame(c, pt)

MatchNext ==
  \/ /\ updateBatch = <<>>
     /\ \/ \E c \in 1..MatchPlayers, pt \in JoinPoints : Rejoin(c, pt)
        \/ \E c \in 1..MatchPlayers, pts \in [1..3 -> SpawnPoints] : StartGame(c, pts)
        \/ \E c \in 1..MatchPlayers, pt \in SpawnPoints, elapsed \in BOOLEAN :
             PlayerMove(c, pt, elapsed)
        \/ \E c \in 1..MatchPlayers : ResetGame(c)
        \/ \E c \in 1..MatchPlayers : RequestRestart(c)
        \/ \E c \in 1..MatchPlayers : Disconnect(c)
        \/ WaveTimerBelow(MatchRounds)
  \/ BatchTimer(TRUE)

MatchSpec == MatchInit /\ [][MatchNext]_vars

\* ------------------------------------------------------------- long games
\* One lobby that fills and plays games of up to CadenceRounds waves, the
\* participants moving onto the collectibles between the waves.
CadenceNext ==
  \/ /\ updateBatch = <<>>
     /\ \/ \E c \in Conns, pt \in JoinPoints : LobbyJoin(c, pt)
        \/ \E c \in Conns, pts \in [1..3 -> SpawnPoints] : StartGame(c, pts)
        \/ \E c \in Conns, pt \in SpawnPoints, elapsed \in BOOLEAN :
             PlayerMove(c, pt, elapsed)
        \/ \E pt \in SpawnPoints : SpawnTimer(pt)
        \/ WaveTimerBelow(CadenceRounds)
  \/ BatchTimer(TRUE)

CadenceSpec == Init /\ [][CadenceNext]_vars

\* ------------------------------------------------------------------ claims
Hosts == {i \in 1..Len(players) : players[i].isHost}

IsHost(ps, c) == Has(ps, c) /\ Get(ps, c).isHost

IsAlive(ps, c) == Has(ps, c) /\ Get(ps, c).isAlive

\* C1: after any sequence of join-game and disconnect events, exactly one
\* registered participant is host when the participant set is non-empty, and
\* none when it is empty.
C1_ExactlyOneHost ==
  Cardinality(Hosts) = IF Len(players) = 0 THEN 0 ELSE 1

\* C2 (as stated): every change of the status is Waiting->Playing,
\* Playing->Finished or Finished->Waiting.
C2_StatusTransitions ==
  [][gameStatus' # gameStatus =>
       <<gameStatus, gameStatus'>> \in {<<"waiting", "playing">>,
                                        <<"playing", "finished">>,
                                        <<"finished", "waiting">>}]_vars

\* C2 (amended): every change of the status is Waiting->Playing or
\* Finished->Playing by a start-game of the host, Playing->Finished by a wave
\* timer, or Playing->Waiting or Finished->Waiting by a reset-game of the
\* host, by the disconnect of the last participant or by a request-restart
\* received while Finished.
C2_StatusTransitionsAmended ==
  [][gameStatus' # gameStatus =>
       \/ /\ gameStatus \in {"waiting", "finished"}
          /\ gameStatus' = "playing"
          /\ last'.op = "start-game"
          /\ IsHost(players, last'.id)
       \/ /\ gameStatus = "playing"
          /\ gameStatus' = "finished"
          /\ last'.op = "wave"
       \/ /\ gameStatus \in {"playing", "finished"}
          /\ gameStatus' = "waiting"
          /\ \/ last'.op = "reset-game" /\ IsHost(players, last'.id)
             \/ last'.op = "disconnect" /\ players' = <<>>
             \/ last'.op = "request-restart" /\ gameStatus = "finished"]_vars

\* A game started straight from Finished.
C2_Witness ==
  /\ gameStatus = "playing"
  /\ last.op = "start-game"
  /\ last.from = "finished"

\* C4: at most one wave timer is outstanding and at most one spawn timer is
\* active in every reachable state.
C4_OneTimerEach ==
  /\ Cardinality(timeouts) <= 1
  /\ Cardinality(intervals) <= 1

\* A wave has rescheduled itself: one wave timer and one spawn timer remain.
C4_Witness ==
  /\ gameStatus = "playing"
  /\ last.op = "wave"
  /\ Cardinality(timeouts) = 1
  /\ Cardinality(intervals) = 1
  /\ Len(players) >= 2

\* C6: every participant's shield count is in 0..3 in every reachable state.
C6_ShieldsInRange ==
  \A i \in 1..Len(players) : players[i].shields \in 0..3

\* A participant that holds 3 shields collects one more and still holds 3.
C6_Witness ==
  /\ last.op = "player-move"
  /\ IsAlive(players, last.id)
  /\ Get(players, last.id).shields = 3
  /\ \E i \in 1..Len(emitted) :
       emitted[i].ev = "shield-collected" /\ emitted[i].data = 3

\* C7 (as stated): while Playing the round never decreases, and the round is
\* set back to 0 exactly at the steps where the status becomes Waiting.
C7_RoundReset ==
  [][/\ (gameStatus = "playing" /\ gameStatus' = "playing")
          => currentRound' >= currentRound
     /\ (gameStatus # "waiting" /\ gameStatus' = "waiting") => currentRound' = 0
     /\ currentRound' < currentRound => gameStatus' = "waiting"]_vars

\* C7 (amended): while Playing the round never decreases; the round is 0
\* after every step that makes the status Waiting or Playing, and it
\* decreases only at such a step.
C7_RoundResetAmended ==
  [][/\ (gameStatus = "playing" /\ gameStatus' = "playing")
          => currentRound' >= currentRound
     /\ (gameStatus # "waiting" /\ gameStatus' = "waiting") => currentRound' = 0
     /\ (gameStatus # "playing" /\ gameStatus' = "playing") => currentRound' = 0
     /\ currentRound' < currentRound
          => /\ currentRound' = 0
             /\ gameStatus' # gameStatus
             /\ gameStatus' \in {"waiting", "playing"}]_vars

\* A start-game received in Finished has set the round back to 0.
C7_Witness ==
  /\ gameStatus = "playing"
  /\ currentRound = 0
  /\ last.op = "start-game"
  /\ last.from = "finished"
  /\ Len(players) >= 2

C5_EliminatedStaysEliminated ==
  [][\A c \in Conns :
       (Has(players, c) /\ ~Get(players, c).isAlive /\ IsAlive(players', c))
         => \/ gameStatus' = "waiting"
            \/ /\ last'.op = "start-game"
               /\ gameStatus # "playing"
               /\ gameStatus' = "playing"]_vars

AliveIds(ps) == {ps[i].id : i \in {j \in 1..Len(ps) : ps[j].isAlive}}

ZeroShieldIds(ps) ==
  {ps[i].id : i \in {j \in 1..Len(ps) : ps[j].isAlive /\ ps[j].shields = 0}}

SameShields(ps, qs) ==
  /\ Len(ps) = Len(qs)
  /\ \A i \in 1..Len(ps) : qs[i].id = ps[i].id /\ qs[i].shields = ps[i].shields

\* The least integer k with k >= 0.3 * a.
CeilThreeTenths(a) == CHOOSE k \in 0..a : 10 * k >= 3 * a /\ 10 * (k - 1) < 3 * a

WaveStep == last'.op = "wave" /\ gameStatus = "playing"

ArchivedByLastWave ==
  {i \in 1..Len(emitted) : emitted[i].ev = "archiving-wave"}

\* C8: a wave that fires with a >= 2 alive participants, z >= 1 of them
\* without shield, eliminates exactly min(ceil(0.3 a), z) participants, all of
\* them without shield, and changes no shield count.
C8_WaveEliminatesQuota ==
  [][(/\ WaveStep
      /\ Cardinality(AliveIds(players)) >= 2
      /\ Cardinality(ZeroShieldIds(players)) >= 1)
       => LET gone == AliveIds(players) \ AliveIds(players')
          IN  /\ Cardinality(gone) =
                   Min(CeilThreeTenths(Cardinality(AliveIds(players))),
                       Cardinality(ZeroShieldIds(players)))
              /\ gone \subseteq ZeroShieldIds(players)
              /\ AliveIds(players') \subseteq AliveIds(players)
              /\ SameShields(players, players')]_vars

\* Ten participants without shield, three of them eliminated by one wave.
C8_Witness ==
  /\ last.op = "wave"
  /\ Len(players) = 10
  /\ currentRound = 2
  /\ Cardinality(AliveIds(players)) = 7
  /\ \E i \in ArchivedByLastWave : Len(emitted[i].data.archivedPlayers) = 3

C11_ShieldLastsOneWave ==
  [][WaveStep =>
       \A i \in 1..Len(players) :
         (players[i].isAlive /\ players[i].shields > 0)
           => /\ Has(players', players[i].id)
              /\ Get(players', players[i].id).shields = players[i].shields - 1]_vars

DelayTable == <<9000, 8000, 7000, 6000, 5000, 4000, 3000, 3000>>

ExpectedDelay(r) == IF r <= Len(DelayTable) THEN DelayTable[r] ELSE 3000

\* C12: the wave of round r announces and schedules the next wave after
\* max(10000 - 1000 r, 3000) ms (9000, 8000, 7000, 6000, 5000, 4000, 3000,
\* 3000 for rounds 1..8), never more than the delay before and never less
\* than 3000; start-game schedules the first wave after 10000 ms.
C12_WaveDelays ==
  [][/\ last'.op = "wave"
        => /\ \A i \in 1..Len(emitted') :
                emitted'[i].ev = "archiving-wave"
                  => /\ emitted'[i].data.round = currentRound'
                     /\ emitted'[i].data.nextWaveIn = ExpectedDelay(currentRound')
           /\ gameStatus' = "playing"
                => /\ \E i \in 1..Len(emitted') : emitted'[i].ev = "archiving-wave"
                   /\ Cardinality(timeouts') = 1
                   /\ \A u \in timeouts' :
                        /\ u.delay = ExpectedDelay(currentRound')
                        /\ u.delay >= 3000
                        /\ \A w \in timeouts : u.delay <= w.delay
     /\ (last'.op = "start-game" /\ gameStatus # "playing" /\ gameStatus' = "playing")
        => /\ Cardinality(timeouts') = 1
           /\ \A u \in timeouts' : u.delay = 10000]_vars

\* The wave of round 8 has scheduled the next one 3000 ms later.
C12_Witness ==
  /\ last.op = "wave"
  /\ currentRound = 8
  /\ gameStatus = "playing"
  /\ \E u \in timeouts : u.delay = 3000
  /\ \E i \in 1..Len(emitted) :
       emitted[i].ev = "archiving-wave" /\ emitted[i].data.nextWaveIn = 3000

GameEnds == gameStatus = "playing" /\ gameStatus' = "finished"

\* C13: when a game ends with exactly one participant alive the winner is
\* that participant, when it ends with nobody alive the winner stays null,
\* and the winner is non-null only while the status is Finished.
C13_Winner ==
  /\ winner # NoWinner => gameStatus = "finished"
  /\ [][/\ GameEnds
           => /\ Cardinality(AliveIds(players')) = 1 => winner' \in AliveIds(players')
              /\ AliveIds(players') = {} => winner' = NoWinner
        /\ winner' # NoWinner => gameStatus' = "finished"]_vars

\* A game of three ended by a wave with one survivor, who is the winner.
C13_Witness ==
  /\ last.op = "wave"
  /\ gameStatus = "finished"
  /\ Len(players) = 3
  /\ Len(eliminationOrder) = 2
  /\ AliveIds(players) = {winner}

\* A game ended by a wave with nobody alive: the winner is null.
C13_NobodyAlive ==
  /\ last.op = "wave"
  /\ gameStatus = "finished"
  /\ players # <<>>
  /\ AliveIds(players) = {}
  /\ winner = NoWinner

\* The scoreboards of the game-ended messages of the last handler.
Scoreboards ==
  {emitted[i].data : i \in {j \in 1..Len(emitted) : emitted[j].ev = "game-ended"}}

\* C14: in the scoreboard sent with game-ended the ranks are 1..n without
\* gaps, the sole survivor (if any) has rank 1 and is the only entry with
\* isWinner = true, and the eliminated participants follow in reverse
\* elimination order, the last eliminated first.
C14_Scoreboard ==
  \A sb \in Scoreboards :
    LET alive == AliveIds(players)
        m == Cardinality(alive)
        n == Len(eliminationOrder)
    IN  /\ Len(sb) = m + n
        /\ \A k \in 1..Len(sb) : sb[k].rank = k
        /\ m = 1 => /\ sb[1].id \in alive
                    /\ sb[1].isWinner
                    /\ \A k \in 2..Len(sb) : ~sb[k].isWinner
        /\ \A j \in 1..n : sb[m + j].id = eliminationOrder[n + 1 - j].id

\* The session state apart from the record of the last handler.
session == <<players, gameStatus, startTime, currentRound, winner,
             eliminationOrder, shields, archivingTimer, shieldSpawnInterval,
             timeouts, intervals, updateBatch>>

\* C15: a player-move from a connection that is not registered, whose
\* participant is eliminated, or that arrives while the status is not Playing
\* leaves the session state unchanged and emits nothing.
C15_RejectedMove ==
  [][(/\ last'.op = "player-move"
      /\ \/ ~Has(players, last'.id)
         \/ ~Get(players, last'.id).isAlive
         \/ gameStatus # "playing")
       => /\ UNCHANGED session
          /\ emitted' = <<>>]_vars

\* An archived participant has sent player-move in a running game.
C15_Witness ==
  /\ last.op = "player-move"
  /\ gameStatus = "playing"
  /\ Has(players, last.id)
  /\ ~Get(players, last.id).isAlive
  /\ Cardinality(AliveIds(players)) >= 2
  /\ emitted = <<>>

\* C16: a start-game from a connection that is not the host (or not
\* registered), or received while the status is Playing, leaves the session
\* state unchanged, schedules no timer and emits nothing.
C16_RejectedStart ==
  [][(/\ last'.op = "start-game"
      /\ \/ ~Has(players, last'.id)
         \/ ~Get(players, last'.id).isHost
         \/ gameStatus = "playing")
       => /\ UNCHANGED session
          /\ emitted' = <<>>]_vars

\* The host has sent start-game in a game that had played a round: the round,
\* the timers and the game go on.
C16_Witness ==
  /\ last.op = "start-game"
  /\ last.from = "playing"
  /\ IsHost(players, last.id)
  /\ gameStatus = "playing"
  /\ currentRound >= 1
  /\ Cardinality(timeouts) = 1
  /\ emitted = <<>>

\* C17: a start-game received while fewer than 2 participants are registered
\* does not move the session to Playing.
C17_StartNeedsTwo ==
  [][(last'.op = "start-game" /\ Len(players) < 2)
       => ~(gameStatus # "playing" /\ gameStatus' = "playing")]_vars

\* The session s is a fresh lobby of the participants ps: Waiting, round 0,
\* no winner, no elimination, no collectible, no wave or spawn timer,
\* everybody alive without shield.
FreshLobby(ps, s) ==
  /\ s.gameStatus = "waiting"
  /\ s.currentRound = 0
  /\ s.winner = NoWinner
  /\ s.eliminationOrder = <<>>
  /\ s.shields = <<>>
  /\ s.timeouts = {}
  /\ s.intervals = {}
  /\ Len(s.players) = Len(ps)
  /\ \A i \in 1..Len(ps) :
       /\ s.players[i].id = ps[i].id
       /\ s.players[i].isAlive
       /\ s.players[i].shields = 0

\* C18: a reset-game from the host, in any status, cancels the wave and spawn
\* timers and leaves a fresh lobby of the registered participants; a
\* reset-game from anybody else changes nothing.
C18_ResetGame ==
  [][last'.op = "reset-game"
       => IF IsHost(players, last'.id)
            THEN FreshLobby(players, Session')
            ELSE UNCHANGED session /\ emitted' = <<>>]_vars

\* The host has reset a running game of two.
C18_Witness ==
  /\ last.op = "reset-game"
  /\ last.from = "playing"
  /\ IsHost(players, last.id)
  /\ Len(players) = 2
  /\ FreshLobby(players, Session)
  /\ \E i \in 1..Len(emitted) : emitted[i].ev = "game-reset"

\* The handler that ran last was a reset-game the server accepted.
AfterReset ==
  /\ last.op = "reset-game"
  /\ \E i \in 1..Len(emitted) : emitted[i].ev = "game-reset"

\* C19: whatever happened before, a host reset-game directly followed by a
\* host start-game gives a Playing session with round 0, no winner, an empty
\* elimination sequence and the same participants, each alive with exactly 1
\* shield and survival time 0.
C19_ResetThenStart ==
  [][(AfterReset /\ last'.op = "start-game" /\ IsHost(players, last'.id))
       => /\ gameStatus' = "playing"
          /\ currentRound' = 0
          /\ winner' = NoWinner
          /\ eliminationOrder' = <<>>
          /\ Len(players') = Len(players)
          /\ \A i \in 1..Len(players) :
               /\ players'[i].id = players[i].id
               /\ players'[i].isAlive
               /\ players'[i].shields = 1
               /\ players'[i].survivalTime = 0]_vars

\* The host of a game of two that was running or over has reset it and
\* started the next one.
C19_Witness ==
  /\ last.op = "start-game"
  /\ last.from = "waiting"
  /\ last.prev.op = "reset-game"
  /\ last.prev.id = last.id
  /\ last.prev.from \in {"playing", "finished"}
  /\ gameStatus = "playing"
  /\ Len(players) = 2

\* C20: a disconnect that removes the last registered participant resets the
\* session in the same step, whatever the status was: Waiting, round 0, no
\* winner, no collectible, empty elimination sequence, no wave or spawn timer.
C20_LastDisconnectResets ==
  [][(/\ last'.op = "disconnect"
      /\ Len(players) = 1
      /\ Has(players, last'.id))
       => /\ FreshLobby(<<>>, Session')
          /\ archivingTimer' = NoTimer
          /\ shieldSpawnInterval' = NoTimer]_vars

\* The only participant of a running game has disconnected.
C20_Witness ==
  /\ last.op = "disconnect"
  /\ last.from = "playing"
  /\ FreshLobby(<<>>, Session)
  /\ archivingTimer = NoTimer
  /\ shieldSpawnInterval = NoTimer

\* C21: a request-restart received while the status is Finished leaves a
\* fresh lobby (Waiting, round 0, no winner, no collectible, empty elimination
\* sequence) of the same participants with the same host, all alive without
\* shield; received in Waiting or Playing it changes nothing.
C21_RequestRestart ==
  [][last'.op = "request-restart"
       => IF gameStatus = "finished"
            THEN /\ FreshLobby(players, Session')
                 /\ \A i \in 1..Len(players) :
                      players'[i].isHost = players[i].isHost
            ELSE UNCHANGED session /\ emitted' = <<>>]_vars

\* --------------------------------------------------- clients that are followed
\* The lobby of Init with the client of every socket followed.  Sockets join
\* once per connection and stand still; start-game, reset-game, disconnects,
\* waves and the batch timer run in any order.
ViewInit ==
  /\ server \in Servers
  /\ players = <<>>
  /\ gameStatus = "waiting"
  /\ startTime = Null
  /\ currentRound = 0
  /\ winner = NoWinner
  /\ eliminationOrder = <<>>
  /\ shields = <<>>
  /\ archivingTimer = NoTimer
  /\ shieldSpawnInterval = NoTimer
  /\ timeouts = {}
  /\ intervals = {}
  /\ updateBatch = <<>>
  /\ sinceFlush = 0
  /\ views = [c \in Conns |-> <<>>]
  /\ emitted = <<>>
  /\ last = [op |-> "init", id |-> 0, from |-> "waiting", at |-> NoPoint,
            prev |-> NoPrev]

FirstJoin(c, pt) ==
  /\ ~Has(players, c)
  /\ JoinGame(c, pt)

\* Waves are 3 to 10 s apart and the batch timer runs every 25 ms: the
\* entries a wave queued are flushed before the next wave.
WaveEntryPending ==
  \E i \in 1..Len(updateBatch) :
    ~(updateBatch[i].hasShields /\ updateBatch[i].hasIsAlive)

ViewNext ==
  \/ \E c \in Conns, pt \in JoinPoints : FirstJoin(c, pt)
  \/ \E c \in Conns, pts \in [1..3 -> SpawnPoints] : StartGame(c, pts)
  \/ \E c \in Conns : ResetGame(c)
  \/ \E c \in Conns : Disconnect(c)
  \/ ~WaveEntryPending /\ WaveTimer
  \/ \E due \in BOOLEAN : BatchTimer(due)

ViewSpec == ViewInit /\ [][ViewNext]_vars

\* A client's players array lists every registered participant, and each of
\* its entries for a participant has the server's isAlive and shields.
ViewAgrees(v, ps) ==
  \A i \in 1..Len(ps) :
    /\ \E j \in 1..Len(v) : v[j].id = ps[i].id
    /\ \A j \in 1..Len(v) :
         v[j].id = ps[i].id
           => v[j].isAlive = ps[i].isAlive /\ v[j].shields = ps[i].shields

\* C22: once every emitted message is delivered and no update is pending in
\* updateBatch, the players array of every registered client shows each
\* registered participant with the server's liveness and shield count.
C22_ViewsConverge ==
  updateBatch = <<>>
    => \A c \in DOMAIN views : Has(players, c) => ViewAgrees(views[c], players)

\* C23: while the status is Finished, a step that is no start-game, reset-game
\* or request-restart and does not empty the registry is no wave and no
\* spawn, keeps the status, the round counter, the collectibles and the
\* elimination sequence, and keeps the liveness and shield count of every
\* participant that stays registered.
C23_FinishedFrame ==
  [][(/\ gameStatus = "finished"
      /\ last'.op \notin {"start-game", "reset-game", "request-restart"}
      /\ players' # <<>>)
       => /\ last'.op \notin {"wave", "spawn"}
          /\ gameStatus' = "finished"
          /\ currentRound' = currentRound
          /\ shields' = shields
          /\ eliminationOrder' = eliminationOrder
          /\ \A i \in 1..Len(players) :
               Has(players', players[i].id)
                 => /\ Get(players', players[i].id).isAlive = players[i].isAlive
                    /\ Get(players', players[i].id).shields = players[i].shields]_vars

\* ------------------------------------------------------ moves over the field
\* A running game after its first wave: every socket registered and alive at
\* (100,100) with any shield count, up to MoveShields collectibles at the
\* points of Points.  The players move between these points; pending updates
\* are flushed as in Next.
Fields == UNION {[1..k -> {NewShield(pt) : pt \in Points}] : k \in 0..MoveShields}

MoveInit ==
  /\ server \in Servers
  /\ \E sh \in [Conns -> 0..MaxPlayerShields] : players = WaveConfig(NumConns, sh, {})
  /\ gameStatus = "playing"
  /\ startTime = "set"
  /\ currentRound = 1
  /\ winner = NoWinner
  /\ eliminationOrder = <<>>
  /\ shields \in Fields
  /\ archivingTimer = 1
  /\ shieldSpawnInterval = 1
  /\ timeouts = {[id |-> 1, delay |-> archivingSpeed(1)]}
  /\ intervals = {1}
  /\ updateBatch = <<>>
  /\ sinceFlush = 0
  /\ views = <<>>
  /\ emitted = <<>>
  /\ last = [op |-> "init", id |-> 0, from |-> "playing", at |-> NoPoint,
             prev |-> NoPrev]

MoveNext ==
  \/ /\ updateBatch = <<>>
     /\ \E c \in Conns, pt \in Points, elapsed \in BOOLEAN : PlayerMove(c, pt, elapsed)
  \/ BatchTimer(TRUE)

MoveSpec == MoveInit /\ [][MoveNext]_vars

\* The collectibles strictly within 30 units of a point.
InRangeOf(field, pt) == {i \in 1..Len(field) : InRange(field[i], pt[1], pt[2])}

\* C24: a player-move of a registered, alive participant during Playing to a
\* point within 30 units of a collectible removes exactly one collectible,
\* one of those in range, raises the sender's shield count by one up to 3 and
\* emits exactly one shield-collected; to a point in range of none it removes
\* no collectible; no other participant's shield count changes either way.
C24_Collect ==
  [][(/\ last'.op = "player-move"
      /\ gameStatus = "playing"
      /\ Has(players, last'.id)
      /\ Get(players, last'.id).isAlive)
       => LET c == last'.id
              hits == InRangeOf(shields, last'.at)
              collected == {i \in 1..Len(emitted') : emitted'[i].ev = "shield-collected"}
          IN  /\ \A i \in 1..Len(players) :
                   players[i].id # c => players'[i].shields = players[i].shields
              /\ IF hits = {}
                   THEN /\ shields' = shields
                        /\ Get(players', c).shields = Get(players, c).shields
                        /\ collected = {}
                   ELSE /\ \E i \in hits : shields' = RemoveAt(shields, i)
                        /\ Get(players', c).shields
                             = Min(Get(players, c).shields + 1, 3)
                        /\ Cardinality(collected) = 1]_vars

\* C25: after a player-move of a registered, alive participant during
\* Playing the sender's position on the server is the point of the message.
C25_PositionFollows ==
  [][(/\ last'.op = "player-move"
      /\ gameStatus = "playing"
      /\ Has(players, last'.id)
      /\ Get(players, last'.id).isAlive)
       => /\ Get(players', last'.id).x = last'.at[1]
          /\ Get(players', last'.id).y = last'.at[2]]_vars

\* ------------------------------------------------- the batch timer's clock
\* The optimized server in a running game, with time measured: the batch
\* timer's callback runs every UPDATE_RATE / 2 ms and compares Date.now()
\* with lastBatchUpdate.  Tick lets that much time pass; between ticks
\* moves, a wave, a reset-game and disconnects arrive in any order.
BatchPeriod == UPDATE_RATE \div 2

BatchInit ==
  /\ MoveInit
  /\ server = "optimized"
  /\ \A i \in 1..Len(players) : players[i].shields <= 1

Tick ==
  /\ sinceFlush < UPDATE_RATE
  /\ Commit([Session EXCEPT !.sinceFlush = Min(@ + BatchPeriod, UPDATE_RATE)],
            "tick", 0)

BatchNext ==
  \/ \E c \in Conns, pt \in Points, elapsed \in BOOLEAN : PlayerMove(c, pt, elapsed)
  \/ \E c \in Conns : ResetGame(c)
  \/ \E c \in Conns : Disconnect(c)
  \/ ~WaveEntryPending /\ WaveTimer
  \/ Tick
  \/ BatchTimer(sinceFlush >= UPDATE_RATE)

BatchSpec == BatchInit /\ [][BatchNext]_vars

BatchUpdates(msgs) == {i \in 1..Len(msgs) : msgs[i].ev = "batch-update"}

\* C26: updateBatch never holds two entries for one id; an accepted move
\* leaves the sender's single entry holding the sender's new state and keeps
\* the other entries in place; only the batch timer sends batch-update, and
\* when it does it sends one message holding all of updateBatch and leaves
\* updateBatch empty.
C26_PendingUpdates ==
  [][/\ \A i, j \in 1..Len(updateBatch') :
          updateBatch'[i].id = updateBatch'[j].id => i = j
     /\ (last'.op = "player-move" /\ updateBatch' # updateBatch)
          => LET c == last'.id
                 p == Get(players', c)
             IN  /\ Get(updateBatch', c)
                      = PlayerUpdate(c, p.x, p.y, TRUE, p.shields, TRUE, p.isAlive)
                 /\ \A i \in 1..Len(updateBatch) :
                      /\ updateBatch'[i].id = updateBatch[i].id
                      /\ updateBatch[i].id # c => updateBatch'[i] = updateBatch[i]
     /\ BatchUpdates(emitted') # {}
          => /\ last'.op = "batch"
             /\ emitted' = <<Msg("batch-update", Everyone, updateBatch)>>
             /\ updateBatch' = <<>>]_vars

\* The timer sent two entries at once, one of them a replacement.
C26_Witness ==
  /\ last.op = "batch"
  /\ \E i \in BatchUpdates(emitted) :
       /\ Len(emitted[i].data) = 2
       /\ \E j \in 1..2 : emitted[i].data[j].x = 500
  /\ updateBatch = <<>>

\* C27: a batch-update is sent only when updateBatch holds an entry and at
\* least UPDATE_RATE = 50 ms have passed since the flush before (since the
\* start of the server for the first one), and it is never empty.
C27_FlushRate ==
  [][\A i \in BatchUpdates(emitted') :
       /\ updateBatch # <<>>
       /\ emitted'[i].data # <<>>
       /\ sinceFlush >= 50]_vars

\* The timer flushed the update of a move across the field.
C27_Witness ==
  /\ BatchUpdates(emitted) # {}
  /\ sinceFlush = 0
  /\ \E i \in 1..Len(players) : players[i].x = 500

Spawned(msgs) == {i \in 1..Len(msgs) : msgs[i].ev = "shield-spawned"}

\* The spawnShield calls of one step: the spawn timer makes one, start-game
\* two on the optimized server and one per player up to three on server.ts.
SpawnCalls(op, ps) ==
  CASE op = "spawn" -> 1
    [] op = "start-game" -> IF server = "optimized" THEN 2
                            ELSE IF Len(ps) < 3 THEN Len(ps) ELSE 3
    [] OTHER -> 0

\* The target of a spawnShield call: 8 on the optimized server, 3 plus one
\* per two alive players up to 12 on server.ts.
SpawnTarget(ps) ==
  IF server = "optimized" THEN 8
  ELSE LET alive == Cardinality({i \in 1..Len(ps) : ps[i].isAlive})
       IN  IF 3 + (alive \div 2) < 12 THEN 3 + (alive \div 2) ELSE 12

\* C29: a step adds as many collectibles as it announces with shield-spawned,
\* at most one per spawnShield call it makes; it adds any only with the
\* status Playing and up to the target of the call; the number of
\* collectibles never exceeds 8 on the optimized server and 12 on server.ts.
C29_ShieldCap ==
  [][/\ Len(shields') <= (IF server = "optimized" THEN 8 ELSE 12)
     /\ Len(shields') <= Len(shields) + Cardinality(Spawned(emitted'))
     /\ Cardinality(Spawned(emitted')) <= SpawnCalls(last'.op, players')
     /\ Len(shields') > Len(shields)
          => /\ gameStatus' = "playing"
             /\ Len(shields') <= SpawnTarget(players')]_vars

\* A game started from Finished with the field of the game before still
\* full: the two spawnShield calls of start-game add nothing.
C29_Witness ==
  /\ server = "optimized"
  /\ last.op = "start-game"
  /\ last.from = "finished"
  /\ gameStatus = "playing"
  /\ Len(shields) = 8

\* C30: when a registered host disconnects and others remain, exactly one of
\* the remaining participants becomes host in that step, nothing else about
\* the remaining participants changes, and exactly one new-host, naming the
\* new host, is broadcast; when a registered non-host disconnects, the
\* remaining participants are as before, host flags included, and no
\* new-host is sent.
C30_HostTransfer ==
  [][(/\ last'.op = "disconnect"
      /\ Has(players, last'.id)
      /\ Len(players) > 1)
       => LET c == last'.id
              rest == SelectSeq(players, LAMBDA p : p.id # c)
              notes == {i \in 1..Len(emitted') : emitted'[i].ev = "new-host"}
          IN  /\ Len(players') = Len(rest)
              /\ IF Get(players, c).isHost
                   THEN \E k \in 1..Len(rest) :
                          /\ ~rest[k].isHost
                          /\ players' = [rest EXCEPT ![k].isHost = TRUE]
                          /\ \A i \in 1..Len(rest) : players'[i].isHost <=> i = k
                          /\ \E n \in notes :
                               /\ notes = {n}
                               /\ emitted'[n].to = Everyone
                               /\ emitted'[n].data = rest[k].id
                   ELSE players' = rest /\ notes = {}]_vars

\* The host of a game of three left and one of the other two took over.
C30_Witness ==
  /\ last.op = "disconnect"
  /\ Len(players) = 2
  /\ \E i \in 1..2 : players[i].isHost
  /\ \E i \in 1..Len(emitted) : emitted[i].ev = "new-host"

AliveCount(ps) == Cardinality({i \in 1..Len(ps) : ps[i].isAlive})

\* C31: a wave that fires with at most one participant alive increments the
\* round counter, leaves every participant's liveness and shield count as
\* they were, sets the status to Finished and leaves no wave scheduled; a
\* wave that fires with more alive and leaves at most one alive ends the game
\* too, and one that leaves more alive schedules the next wave.
C31_WaveEndsGame ==
  [][last'.op = "wave"
       => /\ currentRound' = currentRound + 1
          /\ AliveCount(players) <= 1
               => /\ Len(players') = Len(players)
                  /\ \A i \in 1..Len(players) :
                       /\ players'[i].isAlive = players[i].isAlive
                       /\ players'[i].shields = players[i].shields
          /\ IF AliveCount(players') <= 1
               THEN gameStatus' = "finished" /\ timeouts' = {} /\ archivingTimer' = NoTimer
               ELSE gameStatus' = "playing" /\ Cardinality(timeouts') = 1]_vars

\* The wave timer fired in a game whose only alive participant had no shield.
C31_Witness ==
  /\ last.op = "wave"
  /\ gameStatus = "finished"
  /\ currentRound = 2
  /\ \E i \in 1..Len(players) : players[i].isAlive /\ players[i].shields = 0
  /\ emitted # <<>>
  /\ \A i \in 1..Len(emitted) : emitted[i].ev # "archiving-wave"

\* C32: a wave that fires with more than one participant alive either
\* archives at least one participant or takes one shield from exactly one
\* participant and changes no other shield count.
C32_WaveHasEffect ==
  [][(last'.op = "wave" /\ AliveCount(players) > 1)
       => \/ \E i \in 1..Len(players) : players[i].isAlive /\ ~players'[i].isAlive
          \/ \E i \in 1..Len(players) :
               /\ players'[i].shields = players[i].shields - 1
               /\ \A j \in 1..Len(players) :
                    j # i => players'[j].shields = players[j].shields]_vars

\* A wave over three alive participants, every one with a shield, took one
\* shield and archived nobody.
C32_Witness ==
  /\ last.op = "wave"
  /\ AliveCount(players) = 3
  /\ Len(eliminationOrder) = 0
  /\ \E i \in 1..Len(players) : players[i].shields = 0
  /\ \E i \in 1..Len(players) : players[i].shields = MaxPlayerShields

\* C33: whenever the status is Waiting the round counter is 0, the start time
\* is unset, there is no winner, the elimination sequence and the field are
\* empty, no wave timeout or spawn interval is outstanding, and every
\* registered participant is alive with 0 shields.
C33_WaitingIsClean ==
  gameStatus = "waiting"
    => /\ currentRound = 0
       /\ startTime = Null
       /\ winner = NoWinner
       /\ eliminationOrder = <<>>
       /\ shields = <<>>
       /\ timeouts = {}
       /\ intervals = {}
       /\ \A i \in 1..Len(players) : players[i].isAlive /\ players[i].shields = 0

\* A lobby of two after a reset-game that stopped a running game.
C33_Witness ==
  /\ gameStatus = "waiting"
  /\ last.op = "reset-game"
  /\ last.from = "playing"
  /\ Len(players) = 2

\* C34: a wave timeout is outstanding exactly when the status is Playing, and
\* then it is the one archivingTimer refers to.
C34_WaveTimerIffPlaying ==
  /\ timeouts # {} <=> gameStatus = "playing"
  /\ \A t \in timeouts : t.id = archivingTimer

\* A running game of two after its first wave, with the second scheduled.
C34_Witness ==
  /\ gameStatus = "playing"
  /\ last.op = "wave"
  /\ currentRound = 1
  /\ AliveCount(players) = 2
  /\ Cardinality(timeouts) = 1

\* C35: a wave that fires with a >= 2 participants alive leaves at least
\* a - ceil(0.3 * a) of them alive, which is at least one.
C35_WaveLeavesSurvivor ==
  [][(last'.op = "wave" /\ AliveCount(players) >= 2)
       => /\ AliveCount(players') >= AliveCount(players) - CeilThreeTenths(AliveCount(players))
          /\ AliveCount(players') >= 1]_vars

\* A wave over four unshielded participants archived two and left two.
C35_Witness ==
  /\ last.op = "wave"
  /\ Len(players) = 4
  /\ Len(eliminationOrder) = 2
  /\ AliveCount(players) = 2
  /\ \A i \in 1..Len(eliminationOrder) : eliminationOrder[i].eliminatedAt = 2

\* C36: a registered participant is archived exactly when its id is in the
\* elimination sequence, no id is in the elimination sequence twice, and
\* eliminatedAt is set exactly for the archived participants.
C36_EliminationRecord ==
  /\ \A i \in 1..Len(players) :
       /\ ~players[i].isAlive <=> players[i].id \in Ids(eliminationOrder)
       /\ ~players[i].isAlive <=> players[i].eliminatedAt # Undefined
  /\ \A i, j \in 1..Len(eliminationOrder) :
       eliminationOrder[i].id = eliminationOrder[j].id => i = j

\* C37: from one step to the next with the status Playing before and after,
\* the number of alive registered participants does not grow.
C37_AliveNeverGrows ==
  [][(gameStatus = "playing" /\ gameStatus' = "playing")
       => AliveCount(players') <= AliveCount(players)]_vars

Events(msgs, ev) == {i \in 1..Len(msgs) : msgs[i].ev = ev}

\* C38: a step broadcasts game-ended at most once, and only while taking the
\* status from Playing to Finished; the status becomes Playing only in a
\* step that broadcasts game-started.  Hence two game-ended broadcasts have a
\* game-started between them, and none is sent in Waiting.
C38_GameEndedOnce ==
  [][/\ Events(emitted', "game-ended") # {}
          => /\ Cardinality(Events(emitted', "game-ended")) = 1
             /\ gameStatus = "playing"
             /\ gameStatus' = "finished"
     /\ (gameStatus # "playing" /\ gameStatus' = "playing")
          => Events(emitted', "game-started") # {}]_vars

\* A wave of a two-player game has just ended the game and broadcast it.
C38_Witness ==
  /\ last.op = "wave"
  /\ last.from = "playing"
  /\ Events(emitted, "game-ended") # {}
  /\ gameStatus = "finished"
  /\ Len(players) = 2

\* C39: a player-move leaves the status, the start time, the round, the
\* winner, the elimination sequence and the timers as they were, registers
\* and removes nobody, changes of the sender nothing but position and shield
\* count, changes no other participant, adds no collectible, and leaves every
\* pending update of another participant in place.
C39_MoveFrame ==
  [][last'.op = "player-move"
       => LET c == last'.id
          IN  /\ gameStatus' = gameStatus
              /\ startTime' = startTime
              /\ currentRound' = currentRound
              /\ winner' = winner
              /\ eliminationOrder' = eliminationOrder
              /\ archivingTimer' = archivingTimer
              /\ shieldSpawnInterval' = shieldSpawnInterval
              /\ timeouts' = timeouts
              /\ intervals' = intervals
              /\ Len(players') = Len(players)
              /\ \A i \in 1..Len(players) :
                   IF players[i].id = c
                     THEN players'[i] = [players[i] EXCEPT
                                           !.x = players'[i].x,
                                           !.y = players'[i].y,
                                           !.shields = players'[i].shields]
                     ELSE players'[i] = players[i]
              /\ Len(shields') <= Len(shields)
              /\ \A sh \in Range(shields') : sh \in Range(shields)
              /\ \A i \in 1..Len(updateBatch) :
                   updateBatch[i].id # c
                     => /\ i <= Len(updateBatch')
                        /\ updateBatch'[i] = updateBatch[i]
              /\ \A i \in 1..Len(updateBatch') :
                   updateBatch'[i].id # c
                     => /\ i <= Len(updateBatch)
                        /\ updateBatch[i] = updateBatch'[i]]_vars

\* The second player's move collected a shield while an update of the first
\* player was pending.
C39_Witness ==
  /\ last.op = "player-move"
  /\ last.from = "playing"
  /\ Len(players) = 2
  /\ last.id = players[2].id
  /\ Len(updateBatch) = 2
  /\ updateBatch[1].id = players[1].id
  /\ Events(emitted, "shield-collected") # {}

\* C40: every entry of a batch-update that is broadcast carries the id of a
\* participant registered at the time of the broadcast.
C40_BatchOnlyRegistered ==
  [][\A i \in Events(emitted', "batch-update") :
       \A u \in Range(emitted'[i].data) : Has(players', u.id)]_vars

====
